---- MODULE Spec2Model ----
(***************************************************************************)
(* Weather dashboard (src/index.tsx): the fetch/render reconciliation, the *)
(* suggestion debounce and the favorites persistence, as a state machine.  *)
(*                                                                         *)
(* JavaScript runs each handler to completion; a handler is suspended only *)
(* at an await.  fetchWeather and fetchCitySuggestions therefore split in  *)
(* two steps: the synchronous part up to the await (part of the action of  *)
(* the handler that calls it) and the continuation that runs when the      *)
(* backend answers (WeatherResponse, SuggestionResponse).                  *)
(*                                                                         *)
(* Strings are tuples of one-character strings, so that trim, toLowerCase, *)
(* split and includes are computed as the code computes them.  A missing   *)
(* JSON field (undefined) is the empty tuple None, a present one <<v>>.    *)
(* Numbers are integers in tenths (305 is 30.5).                           *)
(***************************************************************************)
EXTENDS Integers, Sequences, FiniteSets, TLC

None == <<>>
Some(v) == <<v>>

-----------------------------------------------------------------------------
(* Strings                                                                 *)

London == <<"L", "o", "n", "d", "o", "n">>
Oslo == <<"O", "s", "l", "o">>
OsloNO == <<"O", "s", "l", "o", ",", " ", "N", "O">>
TypedOs == <<"O", "s">>
TypedOslo == <<" ", "o", "s", "l", "o", " ">>

ClearSky == <<"C", "l", "e", "a", "r">>
Storm == <<"S", "t", "o", "r", "m">>
Thunder == <<"T", "h", "u", "n", "d", "e", "r">>

\* String.prototype.toLowerCase, on the letters the model uses
LowerChar(c) ==
    CASE c = "L" -> "l"
      [] c = "O" -> "o"
      [] c = "N" -> "n"
      [] c = "C" -> "c"
      [] c = "S" -> "s"
      [] c = "T" -> "t"
      [] OTHER -> c

ToLowerCase(s) == [i \in 1..Len(s) |-> LowerChar(s[i])]

RECURSIVE TrimStart(_)
TrimStart(s) == IF s # <<>> /\ Head(s) = " " THEN TrimStart(Tail(s)) ELSE s

RECURSIVE TrimEnd(_)
TrimEnd(s) ==
    IF s # <<>> /\ s[Len(s)] = " " THEN TrimEnd(SubSeq(s, 1, Len(s) - 1)) ELSE s

\* String.prototype.trim
Trim(s) == TrimEnd(TrimStart(s))

\* String.prototype.includes
Includes(s, sub) ==
    \E i \in 0..(Len(s) - Len(sub)) : SubSeq(s, i + 1, i + Len(sub)) = sub

\* s.split(',')[0]
RECURSIVE SplitFirst(_)
SplitFirst(s) ==
    IF s = <<>> \/ Head(s) = "," THEN <<>> ELSE <<Head(s)>> \o SplitFirst(Tail(s))

\* city.split(',')[0].trim()   (fetchWeather)
DisplayCity(city) == Trim(SplitFirst(city))

\* Math.round on tenths: the nearest integer, halves rounded up
MathRound(t) == (t + 5) \div 10

-----------------------------------------------------------------------------
(* Presentation: pure functions of the response                            *)

HEAT_THRESHOLD == 30
COLD_THRESHOLD == 5
WIND_THRESHOLD == 30
FORECAST_DAYS == 5

\* getWeatherIcon: fixed-priority keyword match over the lowered description
GetWeatherIcon(description) ==
    LET desc == ToLowerCase(description) IN
    IF Includes(desc, <<"c", "l", "e", "a", "r">>)
    THEN [icon |-> "sun", animationClass |-> "animate-sun", backgroundClass |-> "bg-sunny"]
    ELSE IF Includes(desc, <<"c", "l", "o", "u", "d">>)
    THEN [icon |-> "cloud", animationClass |-> "animate-cloud", backgroundClass |-> "bg-cloudy"]
    ELSE IF Includes(desc, <<"r", "a", "i", "n">>)
    THEN [icon |-> "rain", animationClass |-> "animate-rain", backgroundClass |-> "bg-rainy"]
    ELSE IF Includes(desc, <<"s", "t", "o", "r", "m">>)
              \/ Includes(desc, <<"t", "h", "u", "n", "d", "e", "r">>)
    THEN [icon |-> "storm", animationClass |-> "animate-storm", backgroundClass |-> "bg-stormy"]
    ELSE IF Includes(desc, <<"s", "n", "o", "w">>)
    THEN [icon |-> "snow", animationClass |-> "animate-snow", backgroundClass |-> "bg-snowy"]
    ELSE IF Includes(desc, <<"m", "i", "s", "t">>) \/ Includes(desc, <<"f", "o", "g">>)
    THEN [icon |-> "mist", animationClass |-> "animate-mist", backgroundClass |-> "bg-misty"]
    ELSE [icon |-> "globe", animationClass |-> "", backgroundClass |-> "bg-default"]

\* mutant of GreaterThan: the threshold itself counts
GreaterOrEqual(x, n) == x # None /\ x[1] >= n * 10

\* a comparison with undefined is false in JavaScript
GreaterThan(x, n) == x # None /\ x[1] > n * 10
LessThan(x, n) == x # None /\ x[1] < n * 10

\* displayWeatherAlerts: the pills appended, in order (description is present)
DisplayWeatherAlerts(current) ==
    LET desc == ToLowerCase(current.description[1]) IN
    (IF GreaterThan(current.temp, HEAT_THRESHOLD) THEN <<"alert-hot">>
     ELSE IF LessThan(current.temp, COLD_THRESHOLD) THEN <<"alert-cold">>
     ELSE <<>>)
    \o (IF GreaterThan(current.wind_speed, WIND_THRESHOLD) THEN <<"alert-wind">> ELSE <<>>)
    \o (IF Includes(desc, <<"s", "t", "o", "r", "m">>)
           \/ Includes(desc, <<"t", "h", "u", "n", "d", "e", "r">>)
        THEN <<"alert-storm">> ELSE <<>>)

\* `${Math.round(x)}`: NaN (None) when the field is missing
RoundText(x) == IF x = None THEN None ELSE Some(MathRound(x[1]))

\* displayCurrentWeather(city, current) on the current-weather elements v.
\* threw: a TypeError leaves the elements written so far as they are.
DisplayCurrentWeather(v, city, current) ==
    LET v1 == [v EXCEPT !.cityName = city] IN
    IF current = None \/ current[1].description = None
    THEN [view |-> v1, threw |-> TRUE]
    ELSE LET c == current[1]
             ic == GetWeatherIcon(c.description[1])
         IN  [view |-> [v1 EXCEPT !.icon = ic.icon,
                                  !.animation = ic.animationClass,
                                  !.background = ic.backgroundClass,
                                  !.temp = RoundText(c.temp),
                                  !.description = c.description,
                                  !.humidity = c.humidity,
                                  !.wind = c.wind_speed,
                                  !.alerts = DisplayWeatherAlerts(c)],
              threw |-> FALSE]

\* one forecast card
ForecastCard(day) ==
    LET ic == GetWeatherIcon(day.description[1]) IN
    [day |-> day.day, icon |-> ic.icon, animation |-> ic.animationClass,
     high |-> RoundText(day.temp_high), low |-> RoundText(day.temp_low)]

\* forecast.slice(0, 5)
Slice5(forecast) ==
    SubSeq(forecast, 1, IF Len(forecast) < FORECAST_DAYS THEN Len(forecast) ELSE FORECAST_DAYS)

\* the forEach of displayForecast: cards appended until a day's description
\* is missing (getWeatherIcon throws on undefined)
RECURSIVE AppendCards(_, _)
AppendCards(cards, days) ==
    IF days = <<>> THEN [cards |-> cards, threw |-> FALSE]
    ELSE IF Head(days).description = None THEN [cards |-> cards, threw |-> TRUE]
    ELSE AppendCards(Append(cards, ForecastCard(Head(days))), Tail(days))

\* displayForecast(forecast): the container is cleared first
DisplayForecast(v, forecast) ==
    IF forecast = None
    THEN [view |-> [v EXCEPT !.cards = <<>>], threw |-> TRUE]
    ELSE LET r == AppendCards(<<>>, Slice5(forecast[1]))
         IN  [view |-> [v EXCEPT !.cards = r.cards], threw |-> r.threw]

-----------------------------------------------------------------------------
(* Bounds and the inputs the environment supplies                          *)

MaxSearches == 1
MaxRefreshes == 1
MaxInputs == 2

DEBOUNCE_DELAY == 300
MIN_QUERY_LENGTH == 3

\* how far the clock may advance in one step (ms)
TickSteps == {150}

\* what the user may type into the city input
InputValues == {TypedOs, TypedOslo}

\* what localStorage may hold under FAVORITES_KEY when the page opens: nothing,
\* text that is not JSON, or an array written by saveFavorites
StoredValues ==
    {[kind |-> "absent", val |-> <<>>],
     [kind |-> "unparsable", val |-> <<>>],
     [kind |-> "array", val |-> <<Oslo>>]}

CurCold ==
    [temp |-> Some(20), humidity |-> Some(800), wind_speed |-> Some(310),
     description |-> Some(ClearSky)]
CurHot ==
    [temp |-> Some(305), humidity |-> Some(400), wind_speed |-> Some(300),
     description |-> Some(Storm)]
CurNoTemp == [CurCold EXCEPT !.temp = None]
DayMon ==
    [day |-> Some(<<"M", "o", "n">>), temp_high |-> Some(124), temp_low |-> Some(-15),
     description |-> Some(ClearSky)]

\* parsed weather responses: two that honour weatherResponseSchema and
\* others that violate it
ReportCold == [current |-> Some(CurCold), forecast |-> Some(<<DayMon>>)]
ReportHot ==
    [current |-> Some(CurHot),
     forecast |-> Some(<<DayMon, DayMon, DayMon, DayMon, DayMon, DayMon>>)]
ReportNoForecast == [current |-> Some(CurHot), forecast |-> None]
ReportNoTemp == [current |-> Some(CurNoTemp), forecast |-> Some(<<DayMon>>)]

ValidReports == {ReportCold, ReportHot}
InvalidReports == {ReportNoForecast, ReportNoTemp}
Reports == ValidReports \cup InvalidReports

\* generateContent rejects, or response.text is not JSON
Failures == {"transport", "unparsable"}

\* parsed suggestion responses
SuggestionLists == {<<>>, <<OsloNO>>}

ERROR_TEXT == "Could not retrieve weather data. Please try another city."

-----------------------------------------------------------------------------
(* State                                                                   *)

VARIABLES
    storage,        \* localStorage[FAVORITES_KEY]
    favorites,      \* let favorites: string[]
    debounceTimer,  \* let debounceTimer: number (0: undefined)
    timers,         \* the window's pending timeouts: [id, query, left]
    currentCity,    \* let currentCity: string
    inputValue,     \* cityInput.value
    hidden,         \* which elements carry the class 'hidden'
    errorText,      \* errorMessageEl.textContent
    btn,            \* searchBtn: disabled, classes 'searching' and 'loading'
    glyph,          \* addFavoriteBtn.textContent
    favItems,       \* the city of each item of favoritesList
    suggItems,      \* the city of each item of suggestionsBox
    view,           \* the current-weather and forecast elements
    weatherReqs,    \* fetchWeather calls awaiting the backend: [id, city, auto]
    suggReqs,       \* fetchCitySuggestions calls awaiting the backend: [id, query]
    loaded,         \* "no", "done", or "crashed" (the load listener threw)
    nWeather,       \* history: weather requests issued so far (the next id)
    nRefresh,       \* history: auto-refreshes fired so far
    nSugg,          \* history: suggestion requests issued so far
    nInputs,        \* history: input events so far
    outcome,        \* history: how the last completed fetchWeather ended
    newestSearch,   \* history: the explicit search issued last: [id, status, edited]
    burstEvents,    \* history: input events of the current burst
    burstCalls,     \* history: fetchCitySuggestions calls since the burst began
    lastCall,       \* history: the argument of the last fetchCitySuggestions call
    lastTyped,      \* history: cityInput.value at the last input event
    call            \* the call a function-level specification applied last

appVars ==
    <<storage, favorites, debounceTimer, timers, currentCity, inputValue, hidden,
      errorText, btn, glyph, favItems, suggItems, view, weatherReqs, suggReqs, loaded>>
histVars ==
    <<nWeather, nRefresh, nSugg, nInputs, outcome, newestSearch, burstEvents,
      burstCalls, lastCall, lastTyped, call>>

\* no function has been applied on its own
NoCall == [fn |-> "none", arg |-> <<>>, confirmed |-> FALSE, before |-> <<>>]

vars == <<appVars, histVars>>

EmptyView ==
    [cityName |-> <<>>, icon |-> "", animation |-> "", background |-> "",
     temp |-> None, description |-> None, humidity |-> None, wind |-> None,
     alerts |-> <<>>, cards |-> <<>>]

\* The page as index.html delivers it and the module-level state of index.tsx.
\* Every section starts hidden and the toggle shows the empty star.
Init ==
    /\ storage \in StoredValues
    /\ favorites = <<>>
    /\ debounceTimer = 0
    /\ timers = {}
    /\ currentCity = London
    /\ inputValue = <<>>
    /\ hidden = [loader |-> TRUE, error |-> TRUE, favorites |-> TRUE,
                 current |-> TRUE, forecast |-> TRUE, suggestions |-> TRUE]
    /\ errorText = ""
    /\ btn = [disabled |-> FALSE, searching |-> FALSE, loading |-> FALSE]
    /\ glyph = "empty-star"
    /\ favItems = <<>>
    /\ suggItems = <<>>
    /\ view = EmptyView
    /\ weatherReqs = {}
    /\ suggReqs = {}
    /\ loaded = "no"
    /\ nWeather = 0
    /\ nRefresh = 0
    /\ nSugg = 0
    /\ nInputs = 0
    /\ outcome = "none"
    /\ newestSearch = [id |-> 0, status |-> "none", edited |-> FALSE]
    /\ burstEvents = 0
    /\ burstCalls = 0
    /\ lastCall = <<>>
    /\ lastTyped = <<>>
    /\ call = NoCall

\* the UI phase, read off the elements showLoading/showContent/showError toggle
Phase ==
    IF ~hidden.loader THEN "Loading"
    ELSE IF ~hidden.error THEN "Error"
    ELSE IF ~hidden.current THEN "Content"
    ELSE "None"

-----------------------------------------------------------------------------
(* UI state management                                                     *)

ShowLoading(h) ==
    [h EXCEPT !.loader = FALSE, !.error = TRUE, !.favorites = TRUE,
              !.current = TRUE, !.forecast = TRUE]

ShowContent(h, favs) ==
    [h EXCEPT !.loader = TRUE, !.error = TRUE,
              !.favorites = IF Len(favs) > 0 THEN FALSE ELSE @,
              !.current = FALSE, !.forecast = FALSE]

\* mutant of ShowError: the loader is left on
ShowErrorLoaderLeft(h) ==
    [h EXCEPT !.error = FALSE, !.favorites = TRUE, !.current = TRUE, !.forecast = TRUE]

ShowError(h) ==
    [h EXCEPT !.loader = TRUE, !.error = FALSE, !.favorites = TRUE,
              !.current = TRUE, !.forecast = TRUE]

\* mutant of IsFavorite: the cities are compared as they are written
IsFavoriteExact(favs, c) == \E i \in 1..Len(favs) : favs[i] = c

\* favorites.some(city => city.toLowerCase() === c.toLowerCase())
IsFavorite(favs, c) ==
    \E i \in 1..Len(favs) : ToLowerCase(favs[i]) = ToLowerCase(c)

\* updateFavoriteButton
FavoriteGlyph(favs, city) ==
    IF IsFavorite(favs, city) THEN "filled-star" ELSE "empty-star"

\* renderFavorites on the 'hidden' class of favoritesSection
RenderFavoritesHidden(h, favs) == [h EXCEPT !.favorites = (Len(favs) = 0)]

\* mutant of ClearTimeout: the pending timeout is left to run
ClearTimeoutForgotten(ts, handle) == ts

\* clearTimeout(handle)
ClearTimeout(ts, handle) == {t \in ts : t.id # handle}

\* window.setTimeout returns a handle no pending timeout has
NewHandle(ts) == CHOOSE n \in 1..(Cardinality(ts) + 1) : \A t \in ts : t.id # n

-----------------------------------------------------------------------------
(* fetchWeather                                                            *)

\* fetchWeather(city, isAutoRefresh) up to its await, on the elements h:
\* an explicit search hides the suggestions, shows the loader and disables
\* the search button; an auto-refresh touches nothing.
FetchWeather(city, isAutoRefresh, h) ==
    /\ nWeather' = nWeather + 1
    /\ nRefresh' = IF isAutoRefresh THEN nRefresh + 1 ELSE nRefresh
    /\ newestSearch' = IF isAutoRefresh THEN newestSearch
                       ELSE [id |-> nWeather + 1, status |-> "pending", edited |-> FALSE]
    /\ weatherReqs' =
           weatherReqs \cup {[id |-> nWeather + 1, city |-> city, auto |-> isAutoRefresh]}
    /\ IF isAutoRefresh
       THEN /\ hidden' = h
            /\ UNCHANGED <<suggItems, btn>>
       ELSE /\ hidden' = ShowLoading([h EXCEPT !.suggestions = TRUE])
            /\ suggItems' = <<>>
            /\ btn' = [btn EXCEPT !.searching = TRUE, !.disabled = TRUE]

\* mutant of Finally: the button is left as the search set it
FinallyForgotten(b, isAutoRefresh) == b

\* mutant of Finally: the button is re-enabled after an auto-refresh too
FinallyAlways(b, isAutoRefresh) == [b EXCEPT !.searching = FALSE, !.disabled = FALSE]

\* history: request r ended with status st
Completed(newest, r, st) == IF r.id = newest.id THEN [newest EXCEPT !.status = st] ELSE newest

\* the finally block of fetchWeather
Finally(b, isAutoRefresh) ==
    IF isAutoRefresh THEN b ELSE [b EXCEPT !.searching = FALSE, !.disabled = FALSE]

\* The backend rejects, or JSON.parse throws: nothing of the try block past
\* the await has run; catch shows the error unless this is an auto-refresh.
WeatherFailure(r, failure) ==
    /\ r \in weatherReqs
    /\ failure \in Failures
    /\ weatherReqs' = weatherReqs \ {r}
    /\ hidden' = IF r.auto THEN hidden ELSE ShowError(hidden)
    /\ errorText' = IF r.auto THEN errorText ELSE ERROR_TEXT
    /\ btn' = Finally(btn, r.auto)
    /\ outcome' = "failed"
    /\ newestSearch' = Completed(newestSearch, r, "failed")
    /\ UNCHANGED <<storage, favorites, debounceTimer, timers, currentCity, inputValue,
                   glyph, favItems, suggItems, view, suggReqs, loaded>>
    /\ UNCHANGED <<nWeather, nRefresh, nSugg, nInputs, burstEvents, burstCalls, lastCall,
                   lastTyped, call>>

\* The response parsed to `data`: currentCity and the toggle are updated, then
\* the current weather and the forecast are drawn; a TypeError while drawing
\* lands in catch with what was written so far left in place.
WeatherParsed(r, data) ==
    /\ r \in weatherReqs
    /\ data \in Reports
    /\ weatherReqs' = weatherReqs \ {r}
    /\ currentCity' = r.city
    /\ glyph' = FavoriteGlyph(favorites, r.city)
    /\ LET cur == DisplayCurrentWeather(view, DisplayCity(r.city), data.current)
           fc == IF cur.threw THEN cur ELSE DisplayForecast(cur.view, data.forecast)
       IN  /\ view' = fc.view
           /\ hidden' = IF r.auto THEN hidden
                        ELSE IF fc.threw THEN ShowError(hidden)
                        ELSE ShowContent(hidden, favorites)
           /\ errorText' = IF ~r.auto /\ fc.threw THEN ERROR_TEXT ELSE errorText
           /\ outcome' = IF fc.threw THEN "threw" ELSE "ok"
           /\ newestSearch' = Completed(newestSearch, r, IF fc.threw THEN "threw" ELSE "ok")
    /\ btn' = Finally(btn, r.auto)
    /\ UNCHANGED <<storage, favorites, debounceTimer, timers, inputValue,
                   favItems, suggItems, suggReqs, loaded>>
    /\ UNCHANGED <<nWeather, nRefresh, nSugg, nInputs, burstEvents, burstCalls, lastCall,
                   lastTyped, call>>

\* the continuation of fetchWeather after the await
WeatherResponse ==
    \E r \in weatherReqs :
        \/ \E failure \in Failures : WeatherFailure(r, failure)
        \/ \E data \in Reports : WeatherParsed(r, data)

-----------------------------------------------------------------------------
(* Startup, explicit searches, auto-refresh                                *)

\* window 'load': loadFavorites (JSON.parse throws on text that is not JSON
\* and the listener ends there), renderFavorites, then the first fetch.
Load ==
    /\ loaded = "no"
    /\ IF storage.kind = "unparsable"
       THEN /\ loaded' = "crashed"
            /\ UNCHANGED <<storage, favorites, debounceTimer, timers, currentCity,
                           inputValue, hidden, errorText, btn, glyph, favItems,
                           suggItems, view, weatherReqs, suggReqs>>
            /\ UNCHANGED histVars
       ELSE LET favs == IF storage.kind = "array" THEN storage.val ELSE favorites
                initialCity == IF Len(favs) > 0 THEN favs[1] ELSE London
            IN  /\ loaded' = "done"
                /\ favorites' = favs
                /\ favItems' = favs
                /\ currentCity' = initialCity
                /\ FetchWeather(initialCity, FALSE, RenderFavoritesHidden(hidden, favs))
                /\ UNCHANGED <<storage, debounceTimer, timers, inputValue, errorText,
                               glyph, view, suggReqs>>
                /\ UNCHANGED <<nSugg, nInputs, outcome, burstEvents, burstCalls, lastCall, lastTyped, call>>

\* the bound on the searches the user starts after the first fetch
CanSearch == nWeather - nRefresh <= MaxSearches

\* searchBtn 'click' (the Enter key clicks the button): a disabled button
\* dispatches no click
SearchClick ==
    /\ loaded # "no"
    /\ CanSearch
    /\ ~btn.disabled
    /\ LET city == Trim(inputValue) IN
       /\ city # <<>>
       /\ FetchWeather(city, FALSE, hidden)
    /\ UNCHANGED <<storage, favorites, debounceTimer, timers, currentCity, inputValue,
                   errorText, glyph, favItems, view, suggReqs, loaded>>
    /\ UNCHANGED <<nSugg, nInputs, outcome, burstEvents, burstCalls, lastCall, lastTyped, call>>

\* click on an item of the suggestion box
SuggestionClick ==
    /\ ~hidden.suggestions
    /\ CanSearch
    /\ \E i \in 1..Len(suggItems) :
        /\ inputValue' = suggItems[i]
        /\ FetchWeather(suggItems[i], FALSE, hidden)
    /\ UNCHANGED <<storage, favorites, debounceTimer, timers, currentCity,
                   errorText, glyph, favItems, view, suggReqs, loaded>>
    /\ UNCHANGED <<nSugg, nInputs, outcome, burstEvents, burstCalls, lastCall, lastTyped, call>>

\* click on the name of a favorite
FavoriteClick ==
    /\ ~hidden.favorites
    /\ CanSearch
    /\ \E i \in 1..Len(favItems) : FetchWeather(favItems[i], FALSE, hidden)
    /\ UNCHANGED <<storage, favorites, debounceTimer, timers, currentCity, inputValue,
                   errorText, glyph, favItems, view, suggReqs, loaded>>
    /\ UNCHANGED <<nSugg, nInputs, outcome, burstEvents, burstCalls, lastCall, lastTyped, call>>

\* the setInterval callback
AutoRefresh ==
    /\ loaded # "no"
    /\ nRefresh < MaxRefreshes
    /\ currentCity # <<>>
    /\ FetchWeather(currentCity, TRUE, hidden)
    /\ UNCHANGED <<storage, favorites, debounceTimer, timers, currentCity, inputValue,
                   errorText, glyph, favItems, view, suggReqs, loaded>>
    /\ UNCHANGED <<nSugg, nInputs, outcome, burstEvents, burstCalls, lastCall, lastTyped, call>>

-----------------------------------------------------------------------------
(* Suggestions: the debounce timer and fetchCitySuggestions                *)

\* mutant of FetchCitySuggestions: the request is sent whatever the length
FetchCitySuggestionsAlways(query) ==
    /\ burstCalls' = burstCalls + 1
    /\ lastCall' = query
    /\ btn' = [btn EXCEPT !.loading = TRUE]
    /\ nSugg' = nSugg + 1
    /\ suggReqs' = suggReqs \cup {[id |-> nSugg + 1, query |-> query, inputs |-> nInputs]}
    /\ UNCHANGED <<hidden, suggItems>>

\* fetchCitySuggestions(query) up to its await: a query shorter than three
\* characters hides the box and returns without a request
FetchCitySuggestions(query) ==
    /\ burstCalls' = burstCalls + 1
    /\ lastCall' = query
    /\ IF Len(query) < MIN_QUERY_LENGTH
       THEN /\ hidden' = [hidden EXCEPT !.suggestions = TRUE]
            /\ suggItems' = <<>>
            /\ btn' = [btn EXCEPT !.loading = FALSE]
            /\ UNCHANGED <<suggReqs, nSugg>>
       ELSE /\ btn' = [btn EXCEPT !.loading = TRUE]
            /\ nSugg' = nSugg + 1
            /\ suggReqs' =
                   suggReqs \cup {[id |-> nSugg + 1, query |-> query, inputs |-> nInputs]}
            /\ UNCHANGED <<hidden, suggItems>>

\* cityInput 'input': restart the debounce timer with the trimmed value.
\* A timeout that is due runs before a later input event is dispatched.
Input ==
    /\ loaded # "no"
    /\ nInputs < MaxInputs
    /\ \A t \in timers : t.left > 0
    /\ \E v \in InputValues :
        /\ v # inputValue
        /\ inputValue' = v
        /\ lastTyped' = v
        /\ LET ts == ClearTimeout(timers, debounceTimer)
               handle == NewHandle(ts)
           IN  /\ debounceTimer' = handle
               /\ timers' = ts \cup {[id |-> handle, query |-> Trim(v),
                                      left |-> DEBOUNCE_DELAY]}
    /\ nInputs' = nInputs + 1
    /\ burstEvents' = IF timers = {} THEN 1 ELSE burstEvents + 1
    /\ burstCalls' = IF timers = {} THEN 0 ELSE burstCalls
    /\ UNCHANGED <<storage, favorites, currentCity, hidden, errorText, btn, glyph,
                   favItems, suggItems, view, weatherReqs, suggReqs, loaded>>
    /\ newestSearch' = [newestSearch EXCEPT !.edited = TRUE]
    /\ UNCHANGED <<nWeather, nRefresh, nSugg, outcome, lastCall, call>>

\* time passes, up to the moment the next timeout is due
Tick ==
    /\ timers # {}
    /\ \E d \in TickSteps :
        /\ \A t \in timers : t.left >= d
        /\ timers' = {[t EXCEPT !.left = @ - d] : t \in timers}
    /\ UNCHANGED <<storage, favorites, debounceTimer, currentCity, inputValue, hidden,
                   errorText, btn, glyph, favItems, suggItems, view, weatherReqs,
                   suggReqs, loaded>>
    /\ UNCHANGED histVars

\* the timeout callback: fetchCitySuggestions(query)
DebounceFire ==
    \E t \in timers :
        /\ t.left = 0
        /\ timers' = timers \ {t}
        /\ FetchCitySuggestions(t.query)
        /\ UNCHANGED <<storage, favorites, debounceTimer, currentCity, inputValue,
                       errorText, glyph, favItems, view, weatherReqs, loaded>>
        /\ UNCHANGED <<nWeather, nRefresh, nInputs, outcome, newestSearch, burstEvents,
                       lastTyped, call>>

\* displaySuggestions on the box: emptied, then hidden when there is nothing
\* to show, else filled and shown
DisplaySuggestions(h, suggestions) ==
    IF Len(suggestions) = 0
    THEN [hidden |-> [h EXCEPT !.suggestions = TRUE], items |-> <<>>]
    ELSE [hidden |-> [h EXCEPT !.suggestions = FALSE], items |-> suggestions]

\* the continuation of fetchCitySuggestions: the parsed list is displayed;
\* a rejection or text that is not JSON hides the box
SuggestionResponse ==
    \E r \in suggReqs :
        /\ suggReqs' = suggReqs \ {r}
        /\ \/ \E suggestions \in SuggestionLists :
                LET d == DisplaySuggestions(hidden, suggestions) IN
                /\ hidden' = d.hidden
                /\ suggItems' = d.items
           \/ \E failure \in Failures :
                /\ hidden' = [hidden EXCEPT !.suggestions = TRUE]
                /\ suggItems' = <<>>
        /\ btn' = [btn EXCEPT !.loading = FALSE]
        /\ UNCHANGED <<storage, favorites, debounceTimer, timers, currentCity,
                       inputValue, errorText, glyph, favItems, view, weatherReqs, loaded>>
        /\ UNCHANGED histVars

\* document 'click' outside the search wrapper
ClickOutside ==
    /\ loaded # "no"
    /\ hidden' = [hidden EXCEPT !.suggestions = TRUE]
    /\ suggItems' = <<>>
    /\ UNCHANGED <<storage, favorites, debounceTimer, timers, currentCity, inputValue,
                   errorText, btn, glyph, favItems, view, weatherReqs, suggReqs, loaded>>
    /\ UNCHANGED histVars

-----------------------------------------------------------------------------
(* Favorites                                                               *)

\* favorites.filter(city => city.toLowerCase() !== c.toLowerCase())
WithoutFavorite(favs, c) ==
    SelectSeq(favs, LAMBDA city : ToLowerCase(city) # ToLowerCase(c))

\* JSON.stringify(favorites) as localStorage keeps it
Stringify(favs) == [kind |-> "array", val |-> favs]

\* mutant of SaveAndRender: saveFavorites is left out
SaveAndRenderUnsaved(favs) ==
    /\ favorites' = favs
    /\ storage' = storage
    /\ favItems' = favs
    /\ hidden' = RenderFavoritesHidden(hidden, favs)
    /\ glyph' = FavoriteGlyph(favs, currentCity)

\* saveFavorites, renderFavorites, updateFavoriteButton after favorites
\* became favs (localStorage.setItem succeeds)
SaveAndRender(favs) ==
    /\ favorites' = favs
    /\ storage' = Stringify(favs)
    /\ favItems' = favs
    /\ hidden' = RenderFavoritesHidden(hidden, favs)
    /\ glyph' = FavoriteGlyph(favs, currentCity)

AddFavorite(cityToAdd) ==
    IF IsFavorite(favorites, cityToAdd)
    THEN UNCHANGED <<favorites, storage, favItems, hidden, glyph>>
    ELSE SaveAndRender(Append(favorites, cityToAdd))

\* mutant of RemoveFavorite: the answer to confirm() is not looked at
RemoveFavoriteUnasked(cityToRemove, confirmed) ==
    SaveAndRender(WithoutFavorite(favorites, cityToRemove))

\* confirmed: the answer to confirm()
RemoveFavorite(cityToRemove, confirmed) ==
    IF confirmed
    THEN SaveAndRender(WithoutFavorite(favorites, cityToRemove))
    ELSE UNCHANGED <<favorites, storage, favItems, hidden, glyph>>

\* addFavoriteBtn 'click'; the button sits in the current-weather section
ToggleFavorite ==
    /\ loaded # "no"
    /\ ~hidden.current
    /\ \E confirmed \in BOOLEAN :
        IF IsFavorite(favorites, currentCity)
        THEN RemoveFavorite(currentCity, confirmed)
        ELSE AddFavorite(currentCity)
    /\ UNCHANGED <<debounceTimer, timers, currentCity, inputValue, errorText, btn,
                   suggItems, view, weatherReqs, suggReqs, loaded>>
    /\ UNCHANGED histVars

\* click on the remove button of a favorite
FavoriteRemoveClick ==
    /\ ~hidden.favorites
    /\ \E i \in 1..Len(favItems), confirmed \in BOOLEAN :
        RemoveFavorite(favItems[i], confirmed)
    /\ UNCHANGED <<debounceTimer, timers, currentCity, inputValue, errorText, btn,
                   suggItems, view, weatherReqs, suggReqs, loaded>>
    /\ UNCHANGED histVars

-----------------------------------------------------------------------------

Next ==
    \/ Load
    \/ SearchClick
    \/ SuggestionClick
    \/ FavoriteClick
    \/ AutoRefresh
    \/ WeatherResponse
    \/ Input
    \/ Tick
    \/ DebounceFire
    \/ SuggestionResponse
    \/ ClickOutside
    \/ ToggleFavorite
    \/ FavoriteRemoveClick

Spec == Init /\ [][Next]_vars

\* The search box alone: the user only types, waits, dismisses the box,
\* picks suggestions and presses the search button.
NextSuggest ==
    \/ Load
    \/ SearchClick
    \/ Input
    \/ Tick
    \/ DebounceFire
    \/ SuggestionResponse
    \/ ClickOutside
    \/ SuggestionClick
    \/ WeatherResponse

SpecSuggest == Init /\ [][NextSuggest]_vars

\* Searches and auto-refreshes alone: startup, the search button, the names
\* in the favorites list and the refresh timer.
NextRefresh ==
    \/ Load
    \/ Input
    \/ SearchClick
    \/ FavoriteClick
    \/ AutoRefresh
    \/ WeatherResponse

SpecRefresh == Init /\ [][NextRefresh]_vars

\* Searches, suggestions and auto-refreshes, where every weather request is
\* answered in the end: the backend call of fetchWeather resolves or rejects.
NextAnswered ==
    \/ Load
    \/ SearchClick
    \/ SuggestionClick
    \/ FavoriteClick
    \/ AutoRefresh
    \/ WeatherResponse
    \/ Input
    \/ Tick
    \/ DebounceFire
    \/ SuggestionResponse
    \/ ClickOutside

SpecAnswered == Init /\ [][NextAnswered]_vars /\ WF_vars(WeatherResponse)

\* The favorites alone: startup, searches that change currentCity, the
\* toggle and the favorites list.
NextFavorites ==
    \/ Load
    \/ Input
    \/ SearchClick
    \/ WeatherResponse
    \/ FavoriteClick
    \/ ToggleFavorite
    \/ FavoriteRemoveClick

SpecFavorites == Init /\ [][NextFavorites]_vars

-----------------------------------------------------------------------------
(* addFavorite and removeFavorite applied on their own                     *)

MaxFavorites == 2

OsloLower == <<"o", "s", "l", "o">>

\* the cities the calls are made with
CityNames == {Oslo, OsloLower, London, TypedOs}

\* no two entries equal once lowered: what addFavorite keeps
NoDuplicates(favs) ==
    \A i, j \in 1..Len(favs) : i < j => ToLowerCase(favs[i]) # ToLowerCase(favs[j])

FavoriteLists ==
    {f \in UNION {[1..n -> CityNames] : n \in 0..MaxFavorites} : NoDuplicates(f)}

\* what a call may change, as it was before the call
Snapshot ==
    [favorites |-> favorites, storage |-> storage, favItems |-> favItems, glyph |-> glyph]

\* The page some time after startup: a list of favorites that was saved, and
\* the weather of currentCity on display after a successful search.
InitFavoriteCalls ==
    /\ favorites \in FavoriteLists
    /\ currentCity \in CityNames
    /\ storage = Stringify(favorites)
    /\ favItems = favorites
    /\ glyph = FavoriteGlyph(favorites, currentCity)
    /\ hidden = ShowContent([loader |-> TRUE, error |-> TRUE, favorites |-> TRUE,
                             current |-> TRUE, forecast |-> TRUE, suggestions |-> TRUE],
                            favorites)
    /\ view = DisplayForecast(
                  DisplayCurrentWeather(EmptyView, DisplayCity(currentCity),
                                        ReportCold.current).view,
                  ReportCold.forecast).view
    /\ debounceTimer = 0
    /\ timers = {}
    /\ inputValue = <<>>
    /\ errorText = ""
    /\ btn = [disabled |-> FALSE, searching |-> FALSE, loading |-> FALSE]
    /\ suggItems = <<>>
    /\ weatherReqs = {}
    /\ suggReqs = {}
    /\ loaded = "done"
    /\ nWeather = 1
    /\ nRefresh = 0
    /\ nSugg = 0
    /\ nInputs = 0
    /\ outcome = "ok"
    /\ newestSearch = [id |-> 1, status |-> "ok", edited |-> FALSE]
    /\ burstEvents = 0
    /\ burstCalls = 0
    /\ lastCall = <<>>
    /\ lastTyped = <<>>
    /\ call = NoCall

\* addFavorite(c)
CallAddFavorite ==
    /\ Len(favorites) <= MaxFavorites
    /\ \E c \in CityNames :
        /\ AddFavorite(c)
        /\ call' = [fn |-> "addFavorite", arg |-> c, confirmed |-> FALSE,
                    before |-> Snapshot]
    /\ UNCHANGED <<debounceTimer, timers, currentCity, inputValue, errorText, btn,
                   suggItems, view, weatherReqs, suggReqs, loaded>>
    /\ UNCHANGED <<nWeather, nRefresh, nSugg, nInputs, outcome, newestSearch,
                   burstEvents, burstCalls, lastCall, lastTyped>>

\* removeFavorite(c): the toggle passes currentCity, the remove button of a
\* list item its city
CallRemoveFavorite ==
    /\ \E c \in CityNames, confirmed \in BOOLEAN :
        /\ RemoveFavorite(c, confirmed)
        /\ call' = [fn |-> "removeFavorite", arg |-> c, confirmed |-> confirmed,
                    before |-> Snapshot]
    /\ UNCHANGED <<debounceTimer, timers, currentCity, inputValue, errorText, btn,
                   suggItems, view, weatherReqs, suggReqs, loaded>>
    /\ UNCHANGED <<nWeather, nRefresh, nSugg, nInputs, outcome, newestSearch,
                   burstEvents, burstCalls, lastCall, lastTyped>>

NextFavoriteCalls ==
    \/ CallAddFavorite
    \/ CallRemoveFavorite

SpecFavoriteCalls == InitFavoriteCalls /\ [][NextFavoriteCalls]_vars

-----------------------------------------------------------------------------
(* displayWeatherAlerts applied on its own                                 *)

\* how far around the thresholds the temperatures and wind speeds range
ThresholdMargin == 2

Temperatures ==
    (COLD_THRESHOLD - ThresholdMargin)..(COLD_THRESHOLD + ThresholdMargin)
    \cup (HEAT_THRESHOLD - ThresholdMargin)..(HEAT_THRESHOLD + ThresholdMargin)

WindSpeeds == (WIND_THRESHOLD - ThresholdMargin)..(WIND_THRESHOLD + ThresholdMargin)

Descriptions == {ClearSky, Storm, Thunder}

\* the current-weather records the function is applied to
AlertInputs ==
    {[temp |-> Some(t * 10), humidity |-> Some(400), wind_speed |-> Some(w * 10),
      description |-> Some(d)] : t \in Temperatures, w \in WindSpeeds, d \in Descriptions}

\* The page as it starts, and a current-weather record to draw the alerts of.
InitAlerts ==
    /\ call \in {[NoCall EXCEPT !.arg = current] : current \in AlertInputs}
    /\ storage = [kind |-> "absent", val |-> <<>>]
    /\ favorites = <<>>
    /\ debounceTimer = 0
    /\ timers = {}
    /\ currentCity = London
    /\ inputValue = <<>>
    /\ hidden = [loader |-> TRUE, error |-> TRUE, favorites |-> TRUE,
                 current |-> TRUE, forecast |-> TRUE, suggestions |-> TRUE]
    /\ errorText = ""
    /\ btn = [disabled |-> FALSE, searching |-> FALSE, loading |-> FALSE]
    /\ glyph = "empty-star"
    /\ favItems = <<>>
    /\ suggItems = <<>>
    /\ view = EmptyView
    /\ weatherReqs = {}
    /\ suggReqs = {}
    /\ loaded = "no"
    /\ nWeather = 0
    /\ nRefresh = 0
    /\ nSugg = 0
    /\ nInputs = 0
    /\ outcome = "none"
    /\ newestSearch = [id |-> 0, status |-> "none", edited |-> FALSE]
    /\ burstEvents = 0
    /\ burstCalls = 0
    /\ lastCall = <<>>
    /\ lastTyped = <<>>

\* displayWeatherAlerts(current): the pills replace those of weatherAlertsEl
CallDisplayWeatherAlerts ==
    /\ call.fn = "none"
    /\ call.arg # <<>>
    /\ view' = [view EXCEPT !.alerts = DisplayWeatherAlerts(call.arg)]
    /\ call' = [call EXCEPT !.fn = "displayWeatherAlerts"]
    /\ UNCHANGED <<storage, favorites, debounceTimer, timers, currentCity, inputValue,
                   hidden, errorText, btn, glyph, favItems, suggItems, weatherReqs,
                   suggReqs, loaded>>
    /\ UNCHANGED <<nWeather, nRefresh, nSugg, nInputs, outcome, newestSearch,
                   burstEvents, burstCalls, lastCall, lastTyped>>

SpecAlerts == InitAlerts /\ [][CallDisplayWeatherAlerts]_vars

-----------------------------------------------------------------------------
(* Properties                                                              *)

\* the weather request r completes in this step
WeatherDone(r) == r \in weatherReqs /\ r \notin weatherReqs'

\* the suggestion request r completes in this step
SuggestionDone(r) == r \in suggReqs /\ r \notin suggReqs'

\* the load listener runs in this step
LoadStep == loaded = "no" /\ loaded' # "no"

\* C1: the successful response of an explicit search that was issued before
\* the newest explicit search, and arrives after the newest one has succeeded,
\* changes neither currentCity nor the displayed weather: what is shown stays
\* that of the newest search.
C1_StaleSearchKeepsNewest ==
    [][\A r \in weatherReqs :
          (/\ WeatherDone(r)
           /\ ~r.auto
           /\ r.id < newestSearch.id
           /\ newestSearch.status = "ok"
           /\ outcome' = "ok")
          => (currentCity' = currentCity /\ view' = view)]_vars

\* C2: after a regular startup, an auto-refresh fired before the newest
\* explicit search, for another city than the one that search switched to,
\* completing after that search has succeeded, changes neither currentCity
\* nor the displayed weather.
C2_StaleRefreshKeepsSearch ==
    [][\A r \in weatherReqs :
          (/\ loaded = "done"
           /\ WeatherDone(r)
           /\ r.auto
           /\ r.id < newestSearch.id
           /\ newestSearch.status = "ok"
           /\ r.city # currentCity)
          => (currentCity' = currentCity /\ view' = view)]_vars

\* C3: after a regular startup, an auto-refresh that fails (rejected, not
\* JSON, or a response that violates the schema) leaves the displayed weather
\* and forecast, currentCity and the phase as they were and shows no error.
C3_FailedRefreshChangesNothing ==
    [][\A r \in weatherReqs :
          (loaded = "done" /\ WeatherDone(r) /\ r.auto /\ outcome' # "ok")
          => UNCHANGED <<view, currentCity, hidden, errorText>>]_vars

\* C4: the response to a suggestion request that was issued before the latest
\* input event is discarded: it leaves the suggestion box as it is.
C4_StaleSuggestionsDiscarded ==
    [][\A r \in suggReqs :
          (SuggestionDone(r) /\ nInputs > r.inputs)
          => (suggItems' = suggItems /\ hidden'.suggestions = hidden.suggestions)]_vars

\* C5: in a burst of input events, each less than 300 ms after the one
\* before, no fetchCitySuggestions call is made while the burst lasts, and
\* once its timer has run exactly one call has been made, with the trimmed
\* value of the last event.
C5_OneCallPerBurst ==
    nInputs > 0 =>
        IF timers # {}
        THEN burstCalls = 0
        ELSE burstCalls = 1 /\ lastCall = Trim(lastTyped)

\* C5 witness: a burst of two events has ended with its single call, for the
\* trimmed last value
C5_Witness ==
    /\ burstEvents >= 2
    /\ timers = {}
    /\ burstCalls = 1
    /\ lastTyped = TypedOslo
    /\ lastCall = <<"o", "s", "l", "o">>

\* C6: after page load the toggle shows the filled star exactly when
\* currentCity is a case-insensitive member of favorites.
C6_GlyphIsMembership ==
    loaded # "no" => ((glyph = "filled-star") <=> IsFavorite(favorites, currentCity))

\* C7: after a regular startup, a weather fetch that ends in failure
\* (rejected, not JSON, or thrown while rendering) leaves currentCity as it
\* was.
C7_FailedFetchKeepsCity ==
    [][\A r \in weatherReqs :
          (loaded = "done" /\ WeatherDone(r) /\ outcome' # "ok")
          => currentCity' = currentCity]_vars

\* C8: every change of the phase is Loading->Content, Loading->Error,
\* Content->Loading or Error->Loading (or the first entry into Loading).
C8_PhaseTransitions ==
    [][Phase' # Phase =>
          <<Phase, Phase'>> \in {<<"None", "Loading">>,
                                 <<"Loading", "Content">>, <<"Loading", "Error">>,
                                 <<"Content", "Loading">>, <<"Error", "Loading">>}]_vars

\* C9: loading favorites at startup never raises; with nothing stored or with
\* text that is no JSON array, favorites is empty after load, the phase is
\* Loading and the fetch for the default city has been issued.
C9_LoadNeverRaises ==
    [][LoadStep =>
          /\ loaded' = "done"
          /\ storage.kind # "array" =>
                /\ favorites' = <<>>
                /\ Phase' = "Loading"
                /\ weatherReqs' = {[id |-> 1, city |-> London, auto |-> FALSE]}]_vars

\* C10: on page load the phase becomes Loading and exactly one weather fetch
\* is issued, for the first stored favorite, or for London when there is
\* none; currentCity is that city.
C10_LoadIssuesFirstFetch ==
    [][LoadStep =>
          LET first == IF storage.kind = "array" /\ Len(storage.val) > 0
                       THEN storage.val[1] ELSE London
          IN  /\ Phase' = "Loading"
              /\ nWeather' = 1
              /\ weatherReqs' = {[id |-> 1, city |-> first, auto |-> FALSE]}
              /\ currentCity' = first]_vars

\* favs has an entry equal to c ignoring case
HasMatch(favs, c) == \E i \in 1..Len(favs) : ToLowerCase(favs[i]) = ToLowerCase(c)

\* C11: addFavorite(c) leaves the list (and so its length) as it was when an
\* entry equals c ignoring case, and afterwards every c' equal to c ignoring
\* case has such an entry, so that a second add with c' changes nothing; a
\* confirmed removeFavorite(c) leaves the list as it was when no entry equals
\* c ignoring case.
C11_AddIdempotentRemoveAbsent ==
    /\ call.fn = "addFavorite" =>
          /\ HasMatch(call.before.favorites, call.arg)
                => favorites = call.before.favorites
          /\ ~HasMatch(call.before.favorites, call.arg)
                => favorites = Append(call.before.favorites, call.arg)
          /\ \A c2 \in CityNames :
                ToLowerCase(c2) = ToLowerCase(call.arg) => HasMatch(favorites, c2)
    /\ (call.fn = "removeFavorite" /\ call.confirmed
          /\ ~HasMatch(call.before.favorites, call.arg))
          => favorites = call.before.favorites

\* C11 witness: "oslo" was added to a list that holds "Oslo", which it left
\* as it was
C11_Witness ==
    /\ call.fn = "addFavorite"
    /\ call.arg = OsloLower
    /\ call.before.favorites = <<London, Oslo>>
    /\ favorites = <<London, Oslo>>

Reloaded == IF storage.kind = "array" THEN storage.val ELSE <<>>

\* C13: once an add or a confirmed remove has returned, the stored value is
\* the serialization of favorites; at any point after startup a reload yields
\* favorites, in the same order (until the first save the stored value is the
\* one found at startup).
C13_StoredIsFavorites ==
    loaded # "no" =>
        /\ storage.kind # "unparsable" => Reloaded = favorites
        /\ favorites # <<>> => storage = Stringify(favorites)

\* C13 witness: "Os" was added after "Oslo" and both are stored, in that order
C13_Witness ==
    /\ favorites = <<Oslo, TypedOs>>
    /\ storage = [kind |-> "array", val |-> <<Oslo, TypedOs>>]

\* C14: a removeFavorite whose confirmation was declined leaves favorites,
\* the stored value, the rendered favorites list and the toggle glyph as they
\* were, for the city the toggle passes and for the city of a list item.
C14_DeclinedRemoveChangesNothing ==
    (call.fn = "removeFavorite" /\ ~call.confirmed) =>
        /\ favorites = call.before.favorites
        /\ storage = call.before.storage
        /\ favItems = call.before.favItems
        /\ glyph = call.before.glyph
        /\ hidden.favorites = (Len(call.before.favItems) = 0)

\* C14 witness: the removal of currentCity, a favorite shown in the list, was
\* declined
C14_Witness ==
    /\ call.fn = "removeFavorite"
    /\ ~call.confirmed
    /\ call.arg = currentCity
    /\ \E i \in 1..Len(favItems) : favItems[i] = call.arg
    /\ glyph = "filled-star"

\* an explicit search is awaiting the backend
SearchInFlight == \E r \in weatherReqs : ~r.auto

\* C15: whenever no explicit search is in flight, the search button is
\* enabled.
C15_ButtonReenabled == ~SearchInFlight => ~btn.disabled

\* C15 witness: a search the user started has failed while rendering, none is
\* in flight and the button is enabled again
C15_Witness ==
    /\ newestSearch.id > 1
    /\ newestSearch.status = "threw"
    /\ ~SearchInFlight
    /\ ~btn.disabled

\* C16: an explicit search whose response parses as JSON but violates the
\* schema ends in the Error phase, with the weather sections hidden, so that
\* nothing of the response is on display.
C16_InvalidResponseIsFailure ==
    [][\A r \in weatherReqs, data \in InvalidReports :
          (~r.auto /\ WeatherParsed(r, data))
          => (Phase' = "Error" /\ hidden'.current /\ hidden'.forecast)]_vars

\* the refresh timer fires in this step
RefreshFired == nRefresh' = nRefresh + 1

\* C17: neither the firing of an auto-refresh nor its completion, successful
\* or not, changes the phase, shows the loader or changes whether the search
\* button is enabled; completing in Loading or Error leaves that phase.
C17_RefreshIsSilent ==
    [][(RefreshFired \/ \E r \in weatherReqs : r.auto /\ WeatherDone(r))
          => /\ Phase' = Phase
             /\ hidden'.loader = hidden.loader
             /\ btn'.disabled = btn.disabled]_vars

\* C17 witness: an auto-refresh has succeeded after a failed search and the
\* phase is still Error, with the refreshed weather written underneath
C17_Witness ==
    /\ nRefresh = 1
    /\ weatherReqs = {}
    /\ outcome = "ok"
    /\ newestSearch.status = "failed"
    /\ view.temp # None
    /\ Phase = "Error"

\* fetchCitySuggestions is called in this step (its argument is lastCall')
SuggestionsCalled == burstCalls' = burstCalls + 1

\* C18: a debounce firing whose query has fewer than 3 characters sends no
\* suggestion request, and leaves the suggestion box hidden and empty.
C18_ShortQuerySendsNothing ==
    [][(SuggestionsCalled /\ Len(lastCall') < 3)
          => /\ suggReqs' = suggReqs
             /\ nSugg' = nSugg
             /\ hidden'.suggestions
             /\ suggItems' = <<>>]_vars

\* C18 witness: after a request for "oslo" was sent, the timer has fired for
\* "Os" and no second request went out
C18_Witness ==
    /\ lastCall = TypedOs
    /\ burstCalls = 1
    /\ timers = {}
    /\ nSugg = 1
    /\ hidden.suggestions
    /\ suggItems = <<>>

\* the pill of class cls is among the alerts
HasAlert(cls) == \E i \in 1..Len(view.alerts) : view.alerts[i] = cls

\* C19: for a record with whole-degree temperature and wind speed, the heat
\* alert is present exactly when temp > 30, the cold alert exactly when
\* temp < 5, never both; the wind alert exactly when wind speed > 30; the storm
\* alert exactly when the description contains "storm" or "thunder"; each
\* whatever the others are.
C19_AlertThresholds ==
    call.fn = "displayWeatherAlerts" =>
        LET current == call.arg IN
        /\ HasAlert("alert-hot") <=> current.temp[1] > 300
        /\ HasAlert("alert-cold") <=> current.temp[1] < 50
        /\ ~(HasAlert("alert-hot") /\ HasAlert("alert-cold"))
        /\ HasAlert("alert-wind") <=> current.wind_speed[1] > 300
        /\ HasAlert("alert-storm") <=> current.description[1] \in {Storm, Thunder}

\* C19 witness: at 31 degrees, wind 31 and "Thunder" the heat, wind and storm
\* alerts were drawn together
C19_Witness ==
    /\ call.fn = "displayWeatherAlerts"
    /\ call.arg.temp = Some(310)
    /\ call.arg.wind_speed = Some(310)
    /\ call.arg.description = Some(Thunder)
    /\ view.alerts = <<"alert-hot", "alert-wind", "alert-storm">>

\* C20: whenever an explicit search is in flight, the phase is Loading and
\* the search button is disabled.
C20_InFlightMeansLoading == SearchInFlight => (Phase = "Loading" /\ btn.disabled)

\* C21: after a regular startup, once an explicit search has started, and
\* until the next input event, the suggestion list is hidden and empty.
C21_SuggestionsStayHidden ==
    (loaded = "done" /\ newestSearch.id > 1 /\ ~newestSearch.edited)
        => (hidden.suggestions /\ suggItems = <<>>)

\* C22: when every weather request is answered in the end, the Loading phase
\* always leads to the Content or the Error phase.
C22_LoadingEnds == (Phase = "Loading") ~> (Phase \in {"Content", "Error"})

\* C22 witness: a search the user started, with an auto-refresh and a
\* suggestion request under way as well, has left Loading for Content and no
\* weather request is pending
C22_Witness ==
    /\ newestSearch.id > 1
    /\ newestSearch.status = "ok"
    /\ nRefresh = 1
    /\ nSugg >= 1
    /\ weatherReqs = {}
    /\ Phase = "Content"

====
